---- MODULE Spec2Model ----
(***************************************************************************)
(* Model of streamlit_expenses.py: the cached ingestion routine            *)
(* load_data_from_notion (pagination, per-row field extraction, date       *)
(* normalisation, dropna + sort) and the dashboard script that consumes    *)
(* its table (empty check, filters, top metrics, charts).                  *)
(*                                                                         *)
(* Two specifications share the extraction operators:                      *)
(*   Spec     one dashboard session: reruns, caches, pagination, the row   *)
(*            loop and the rendering steps, over a small catalogue of rows *)
(*   SpecRow  the extraction of one raw row, statement by statement, over  *)
(*            the full product of field shapes                             *)
(***************************************************************************)
EXTENDS Integers, Sequences, FiniteSets, TLC

VARIABLES
    source,          \* remote database: the raw rows it holds, in order
    page_size,       \* rows the remote source returns per query
    first_empty,     \* the remote source answers the first query with no rows
    clock,           \* wall clock, seconds
    client_cache,    \* st.cache_resource entry of get_notion_client
    clientsCreated,  \* number of Client(...) constructions so far
    data_cache,      \* st.cache_data entry of load_data_from_notion
    pc,              \* position of the script run
    err,             \* exception travelling out of load_data_from_notion
    query,           \* last response of notion.databases.query
    results,         \* raw rows accumulated so far
    queries,         \* queries issued in this run: cursor sent, next_cursor got
    idx,             \* position of the row loop in results (0: not started)
    properties,      \* the local variable `properties` of the row loop
    processed_data,  \* rows extracted so far
    data,            \* the script's `data`
    filtered_data,   \* the script's `filtered_data`
    ui,              \* what the run has put on the page
    unit             \* SpecRow: one row going through the extraction

\* the remote database, which no action of the program changes
remote == <<source, page_size, first_empty>>

vars == <<source, page_size, first_empty, clock, client_cache, clientsCreated,
          data_cache,
          pc, err, query, results, queries, idx, properties, processed_data,
          data, filtered_data, ui, unit>>

(***************************************************************************)
(* Bounds of the model and constants of the program                        *)
(***************************************************************************)
MaxRows == 3
MaxClock == 450
MaxClients == 2

TTL == 300
IST == 330
DayMinutes == 24 * 60
TickSteps == {150, 300}

(***************************************************************************)
(* Raw rows.  A text property (Name, Comment) is "ABSENT" (no such         *)
(* property), "EMPTY" (an empty fragment list) or the first fragment's     *)
(* content.  A Category representation (select, multi_select, rich_text)   *)
(* is "ABSENT" (the key is not in the property), "EMPTY" (None or []),     *)
(* "BAD" (a first entry without the name/text key) or the name.            *)
(***************************************************************************)
NoAmount == [kind |-> "absent", num |-> 0]
NoCategory == [select |-> "ABSENT", multi_select |-> "ABSENT", rich_text |-> "ABSENT"]
NoDateProp == [kind |-> "absent", day |-> 0, min |-> 0, aware |-> FALSE, off |-> 0]

\* a page object without a "properties" key
NoProps == [hasProps |-> FALSE, Name |-> "ABSENT", Amount |-> NoAmount,
            Category |-> NoCategory, Date |-> NoDateProp, Comment |-> "ABSENT"]

Page(name, amount, category, date, comment) ==
    [hasProps |-> TRUE, Name |-> name, Amount |-> amount, Category |-> category,
     Date |-> date, Comment |-> comment]

\* a date string that parses in full: calendar day, minute of the day, UTC offset
DateStr(day, min, aware, off) ==
    [kind |-> "full", day |-> day, min |-> min, aware |-> aware, off |-> off]

(***************************************************************************)
(* Timestamps: wall-clock minutes, with or without a UTC offset; None.     *)
(***************************************************************************)
NoneTS == [isNone |-> TRUE, wall |-> 0, aware |-> FALSE, off |-> 0]

to_datetime(d) ==
    [isNone |-> FALSE, wall |-> d.day * DayMinutes + d.min, aware |-> d.aware, off |-> d.off]

tz_localize_UTC(ts) == [ts EXCEPT !.aware = TRUE, !.off = 0]

tz_convert_relabel(ts) == [ts EXCEPT !.off = IST]

tz_convert(ts) == [ts EXCEPT !.wall = ts.wall - ts.off + IST, !.off = IST]

tz_localize_None(ts) == [ts EXCEPT !.aware = FALSE, !.off = 0]

\* .dt.date of a naive timestamp
DateOf(ts) == ts.wall \div DayMinutes

(***************************************************************************)
(* Field extraction.  Each operator returns [exc, val]: exc is TRUE when   *)
(* the statement raises.                                                   *)
(***************************************************************************)
Ok(v) == [exc |-> FALSE, val |-> v]
Raised(v) == [exc |-> TRUE, val |-> v]

\* properties.get("Date", {}).get("date", {}).get("start")
DateValue(p) ==
    IF p.Date.kind = "null" THEN Raised(NoDateProp)
    ELSE IF p.Date.kind = "absent" THEN Ok(NoDateProp)
    ELSE Ok(p.Date)

Rep(r) == IF r = "EMPTY" THEN Ok("") ELSE IF r = "BAD" THEN Raised("") ELSE Ok(r)

CategoryValue_multi_first(p) ==
    LET c == p.Category IN
    IF c.multi_select # "ABSENT" THEN Rep(c.multi_select)
    ELSE IF c.select # "ABSENT" THEN Rep(c.select)
    ELSE IF c.rich_text # "ABSENT" THEN Rep(c.rich_text)
    ELSE Ok("")

CategoryValue(p) ==
    LET c == p.Category IN
    IF c.select # "ABSENT" THEN Rep(c.select)
    ELSE IF c.multi_select # "ABSENT" THEN Rep(c.multi_select)
    ELSE IF c.rich_text # "ABSENT" THEN Rep(c.rich_text)
    ELSE Ok("")

ParsedDate(date_value) ==
    IF date_value.kind = "absent" THEN Ok(NoneTS)
    ELSE IF date_value.kind = "full" THEN
        LET parsed == to_datetime(date_value)
            utc == IF ~parsed.aware THEN tz_localize_UTC(parsed) ELSE parsed
        IN  Ok(tz_localize_None(tz_convert(utc)))
    ELSE IF date_value.kind = "fallback" THEN
        Ok(to_datetime([date_value EXCEPT !.min = 0, !.aware = FALSE, !.off = 0]))
    ELSE Raised(NoneTS)

Text(t) == IF t \in {"ABSENT", "EMPTY"} THEN "" ELSE t

NoRow == [Name |-> "", Amount |-> 0, Category |-> "", Date |-> NoneTS, Comment |-> ""]

RowOf(p, category_value, parsed_date) ==
    IF p.Amount.kind = "str" THEN Raised(NoRow)
    ELSE Ok([Name |-> Text(p.Name),
             Amount |-> IF p.Amount.kind = "num" THEN p.Amount.num ELSE 0,
             Category |-> category_value,
             Date |-> parsed_date,
             Comment |-> Text(p.Comment)])

\* the body of the row loop's try block, for a page that has "properties"
ExtractRow(p) ==
    LET dv == DateValue(p)
        cv == CategoryValue(p)
        pd == ParsedDate(dv.val)
        row == RowOf(p, cv.val, pd.val)
    IN  IF dv.exc \/ cv.exc \/ pd.exc \/ row.exc THEN Raised(NoRow) ELSE Ok(row.val)

(***************************************************************************)
(* SpecRow: one raw row through the statements of the row loop, taken as   *)
(* the first row of its batch.                                             *)
(***************************************************************************)
TextReps == {"ABSENT", "EMPTY", "Lunch"}
CommentReps == {"ABSENT", "EMPTY", "note"}
AmountReps == {NoAmount, [kind |-> "null", num |-> 0], [kind |-> "num", num |-> 120],
               [kind |-> "str", num |-> 0]}
CatReps == {"ABSENT", "EMPTY", "BAD", "Food", "Rent"}
CategoryReps == [select : CatReps, multi_select : CatReps, rich_text : CatReps]
Offsets == {[aware |-> FALSE, off |-> 0], [aware |-> TRUE, off |-> 0],
            [aware |-> TRUE, off |-> IST], [aware |-> TRUE, off |-> 0 - 480]}
Minutes == {0, 1109, 1110, 1439}
DateReps ==
    {NoDateProp, [NoDateProp EXCEPT !.kind = "null"], [NoDateProp EXCEPT !.kind = "garbage"],
     [NoDateProp EXCEPT !.kind = "fallback", !.day = 1, !.min = 1439]}
    \cup {DateStr(1, m, o.aware, o.off) : m \in Minutes, o \in Offsets}

RawPages ==
    {NoProps} \cup
    {Page(n, a, c, d, k) : n \in TextReps, a \in AmountReps, c \in CategoryReps,
                           d \in DateReps, k \in CommentReps}

UnitOff == [pc |-> "off", page |-> NoProps, date_value |-> NoDateProp,
            category_value |-> "", parsed_date |-> NoneTS, row |-> NoRow]

\* SpecRow runs no script: the session's variables stay as they are
SessionUnchanged ==
    UNCHANGED <<remote, clock, client_cache, clientsCreated, data_cache,
                pc, err, query, results, queries, idx, properties, processed_data,
                data, filtered_data, ui>>

\* page["properties"] and the date lookup; a KeyError on the first row of a
\* batch reaches the handler with `properties` unbound
RowProperties ==
    /\ unit.pc = "start"
    /\ unit' = IF ~unit.page.hasProps THEN [unit EXCEPT !.pc = "raised"]
               ELSE IF DateValue(unit.page).exc THEN [unit EXCEPT !.pc = "failed"]
               ELSE [unit EXCEPT !.pc = "category",
                                 !.date_value = DateValue(unit.page).val]
    /\ SessionUnchanged

RowCategory ==
    /\ unit.pc = "category"
    /\ unit' = IF CategoryValue(unit.page).exc THEN [unit EXCEPT !.pc = "failed"]
               ELSE [unit EXCEPT !.pc = "date",
                                 !.category_value = CategoryValue(unit.page).val]
    /\ SessionUnchanged

RowDate ==
    /\ unit.pc = "date"
    /\ unit' = IF ParsedDate(unit.date_value).exc THEN [unit EXCEPT !.pc = "failed"]
               ELSE [unit EXCEPT !.pc = "row",
                                 !.parsed_date = ParsedDate(unit.date_value).val]
    /\ SessionUnchanged

RowBuild ==
    /\ unit.pc = "row"
    /\ LET r == RowOf(unit.page, unit.category_value, unit.parsed_date)
       IN  unit' = IF r.exc THEN [unit EXCEPT !.pc = "failed"]
                   ELSE [unit EXCEPT !.pc = "done", !.row = r.val]
    /\ SessionUnchanged

(***************************************************************************)
(* Spec: the dashboard session.  The remote database holds rows of this    *)
(* catalogue.                                                              *)
(***************************************************************************)
Lunch == Page("Lunch", [kind |-> "num", num |-> 120],
              [NoCategory EXCEPT !.select = "Food"], DateStr(2, 1200, FALSE, 0), "EMPTY")
Rent == Page("Rent", [kind |-> "num", num |-> 900],
             [NoCategory EXCEPT !.multi_select = "Rent"], DateStr(1, 600, TRUE, 0), "note")
Undated == Page("Cash", [kind |-> "null", num |-> 0],
                [NoCategory EXCEPT !.rich_text = "Food"], NoDateProp, "ABSENT")
BadAmount == Page("Taxi", [kind |-> "str", num |-> 0],
                  [NoCategory EXCEPT !.select = "Food"], DateStr(1, 0, FALSE, 0), "EMPTY")
Catalogue == {Lunch, Rent, Undated, BadAmount, NoProps}

Sources == UNION {[1..n -> Catalogue] : n \in 0..MaxRows}
PageSizes == {1, 2}

Cols == <<"Name", "Amount", "Category", "Date", "Comment">>
NoTable == [columns |-> <<>>, rows |-> <<>>]
NoQuery == [results |-> <<>>, has_more |-> FALSE, next_cursor |-> 0]
NoCache == [has |-> FALSE, stamp |-> 0, table |-> NoTable]
Unbound == [bound |-> FALSE, page |-> NoProps]

\* notion.databases.query as the remote source answers it: cursor 0 is the
\* call without start_cursor; a response may hold no rows and still say
\* has_more
RemoteQuery(cursor) ==
    LET from == IF cursor = 0 THEN 1 ELSE cursor
        upto == IF from + page_size - 1 < Len(source) THEN from + page_size - 1
                ELSE Len(source)
    IN  IF cursor = 0 /\ first_empty
        THEN [results |-> <<>>, has_more |-> TRUE, next_cursor |-> 1]
        ELSE [results |-> SubSeq(source, from, upto),
              has_more |-> upto < Len(source),
              next_cursor |-> upto + 1]

HasMore_never(q) == FALSE

HasMore(q) == q.has_more

\* st.cache_data(ttl=300): an entry is served while younger than the ttl
CacheFresh_inclusive(c, now) == c.has /\ now - c.stamp <= TTL

CacheFresh(c, now) == c.has /\ now - c.stamp < TTL

\* df.dropna(subset=['Date'])
DropNa_keep(rows) == rows

DropNa(rows) == SelectSeq(rows, LAMBDA r : ~r.Date.isNone)

Ascending(rows) ==
    \A i \in 1..Len(rows) - 1 : rows[i].Date.wall <= rows[i + 1].Date.wall

\* df.sort_values('Date'): the default sort is not stable, rows of equal Date
\* may come out in any order
SortValues(rows) ==
    LET n == Len(rows)
        Bij == {f \in [1..n -> 1..n] : \A i, j \in 1..n : f[i] = f[j] => i = j}
    IN  {s \in {[i \in 1..n |-> rows[f[i]]] : f \in Bij} : Ascending(s)}

RunLocals ==
    /\ err = "none"
    /\ query = NoQuery
    /\ results = <<>>
    /\ queries = <<>>
    /\ idx = 0
    /\ properties = Unbound
    /\ processed_data = <<>>
    /\ data = NoTable
    /\ filtered_data = <<>>

Init ==
    /\ source \in Sources
    /\ page_size \in PageSizes
    /\ first_empty \in BOOLEAN
    /\ clock = 0
    /\ client_cache = FALSE
    /\ clientsCreated = 0
    /\ data_cache = NoCache
    /\ pc = "idle"
    /\ RunLocals
    /\ ui = {}
    /\ unit = UnitOff

\* the script run is over: its variables are gone, the page stays
EndRun(shown) ==
    /\ pc' = "idle"
    /\ ui' = shown
    /\ err' = "none"
    /\ query' = NoQuery
    /\ results' = <<>>
    /\ queries' = <<>>
    /\ idx' = 0
    /\ properties' = Unbound
    /\ processed_data' = <<>>
    /\ data' = NoTable
    /\ filtered_data' = <<>>

Tick ==
    /\ pc = "idle"
    /\ \E d \in TickSteps : clock + d <= MaxClock /\ clock' = clock + d
    /\ UNCHANGED <<remote, client_cache, clientsCreated, data_cache, pc, err,
                   query, results, queries, idx, properties, processed_data, data,
                   filtered_data, ui, unit>>

\* a user interaction reruns the script from the top
Rerun ==
    /\ pc = "idle"
    /\ pc' = "call_load"
    /\ ui' = {}
    /\ UNCHANGED <<remote, clock, client_cache, clientsCreated, data_cache, err,
                   query, results, queries, idx, properties, processed_data, data,
                   filtered_data, unit>>

\* load_data_from_notion() answered by st.cache_data
CacheHit ==
    /\ pc = "call_load"
    /\ CacheFresh(data_cache, clock)
    /\ data' = data_cache.table
    /\ pc' = "loaded"
    /\ UNCHANGED <<remote, clock, client_cache, clientsCreated, data_cache, err,
                   query, results, queries, idx, properties, processed_data,
                   filtered_data, ui, unit>>

CacheMiss ==
    /\ pc = "call_load"
    /\ ~CacheFresh(data_cache, clock)
    /\ pc' = "get_client"
    /\ UNCHANGED <<remote, clock, client_cache, clientsCreated, data_cache, err,
                   query, results, queries, idx, properties, processed_data, data,
                   filtered_data, ui, unit>>

\* get_notion_client() answered by st.cache_resource
ClientCached ==
    /\ pc = "get_client"
    /\ client_cache
    /\ pc' = "query_first"
    /\ UNCHANGED <<remote, clock, client_cache, clientsCreated, data_cache, err,
                   query, results, queries, idx, properties, processed_data, data,
                   filtered_data, ui, unit>>

CreateClient ==
    /\ pc = "get_client"
    /\ ~client_cache
    /\ clientsCreated < MaxClients
    /\ client_cache' = TRUE
    /\ clientsCreated' = clientsCreated + 1
    /\ pc' = "query_first"
    /\ UNCHANGED <<remote, clock, data_cache, err, query, results, queries, idx,
                   properties, processed_data, data, filtered_data, ui, unit>>

\* the secret is missing or Client(...) raises: nothing is cached
CreateClientFail ==
    /\ pc = "get_client"
    /\ ~client_cache
    /\ err' = "client"
    /\ pc' = "except"
    /\ UNCHANGED <<remote, clock, client_cache, clientsCreated, data_cache,
                   query, results, queries, idx, properties, processed_data, data,
                   filtered_data, ui, unit>>

\* the first query; the debug line formats results[0]['properties'] whatever
\* the log level, before the rows are taken
QueryFirst ==
    /\ pc = "query_first"
    /\ LET q == RemoteQuery(0)
       IN  /\ query' = q
           /\ queries' = <<[cursor |-> 0, next |-> q.next_cursor]>>
           /\ IF q.results # <<>> /\ ~q.results[1].hasProps
              THEN /\ err' = "KeyError"
                   /\ pc' = "except"
                   /\ UNCHANGED results
              ELSE /\ results' = q.results
                   /\ pc' = "paginate"
                   /\ UNCHANGED err
    /\ UNCHANGED <<remote, clock, client_cache, clientsCreated,
                   data_cache, idx, properties, processed_data, data, filtered_data, ui,
                   unit>>

QueryNext ==
    /\ pc = "paginate"
    /\ HasMore(query)
    /\ LET q == RemoteQuery(query.next_cursor)
       IN  /\ query' = q
           /\ results' = results \o q.results
           /\ queries' = Append(queries, [cursor |-> query.next_cursor,
                                          next |-> q.next_cursor])
    /\ UNCHANGED <<remote, clock, client_cache, clientsCreated, data_cache, pc,
                   err, idx, properties, processed_data, data, filtered_data, ui, unit>>

\* the remote source is unreachable or rejects the credential
QueryFail ==
    /\ \/ pc = "query_first"
       \/ pc = "paginate" /\ HasMore(query)
    /\ queries' = Append(queries, [cursor |-> IF pc = "query_first" THEN 0
                                              ELSE query.next_cursor,
                                   next |-> 0])
    /\ err' = "query"
    /\ pc' = "except"
    /\ UNCHANGED <<remote, clock, client_cache, clientsCreated, data_cache,
                   query, results, idx, properties, processed_data, data,
                   filtered_data, ui, unit>>

StartLoop ==
    /\ pc = "paginate"
    /\ ~HasMore(query)
    /\ pc' = "normalize"
    /\ idx' = 1
    /\ UNCHANGED <<remote, clock, client_cache, clientsCreated, data_cache, err,
                   query, results, queries, properties, processed_data, data,
                   filtered_data, ui, unit>>

\* one iteration of `for page in results`, its except clause included: the
\* handler logs `properties`, which is unbound until a page has had the key
NormalizeRow ==
    /\ pc = "normalize"
    /\ idx <= Len(results)
    /\ LET page == results[idx]
           r == ExtractRow(page)
       IN  IF ~page.hasProps /\ ~properties.bound
           THEN /\ err' = "NameError"
                /\ pc' = "except"
                /\ UNCHANGED <<idx, properties, processed_data>>
           ELSE /\ properties' = IF page.hasProps THEN [bound |-> TRUE, page |-> page]
                                 ELSE properties
                /\ processed_data' = IF page.hasProps /\ ~r.exc
                                     THEN Append(processed_data, r.val)
                                     ELSE processed_data
                /\ idx' = idx + 1
                /\ UNCHANGED <<err, pc>>
    /\ UNCHANGED <<remote, clock, client_cache, clientsCreated, data_cache,
                   query, results, queries, data, filtered_data, ui, unit>>

\* the empty-table return, or DataFrame + dropna + sort_values; the returned
\* value is stored by st.cache_data
FinishLoad ==
    /\ pc = "normalize"
    /\ idx > Len(results)
    /\ \E sorted \in IF processed_data = <<>> THEN {<<>>}
                     ELSE SortValues(DropNa(processed_data)) :
          LET df == [columns |-> Cols, rows |-> sorted]
          IN  /\ data' = df
              /\ data_cache' = [has |-> TRUE, stamp |-> clock, table |-> df]
    /\ pc' = "loaded"
    /\ UNCHANGED <<remote, clock, client_cache, clientsCreated, err, query,
                   results, queries, idx, properties, processed_data, filtered_data,
                   ui, unit>>

SwallowExcept ==
    /\ pc = "except"
    /\ data' = [columns |-> Cols, rows |-> <<>>]
    /\ pc' = "loaded"
    /\ UNCHANGED <<remote, clock, client_cache, clientsCreated, data_cache, err,
                   query, results, queries, idx, properties, processed_data,
                   filtered_data, ui, unit>>

\* the function's outer handler: log and re-raise
LoadExcept ==
    /\ pc = "except"
    /\ pc' = "raised"
    /\ UNCHANGED <<remote, clock, client_cache, clientsCreated, data_cache, err,
                   query, results, queries, idx, properties, processed_data, data,
                   filtered_data, ui, unit>>

\* the script's handler: st.error, st.stop
ScriptExcept ==
    /\ pc = "raised"
    /\ EndRun({"error"})
    /\ UNCHANGED <<remote, clock, client_cache, clientsCreated, data_cache,
                   unit>>

(***************************************************************************)
(* The script after the load.                                              *)
(***************************************************************************)
Range(seq) == {seq[i] : i \in 1..Len(seq)}

Days(rows) == {DateOf(r.Date) : r \in Range(rows)}
Categories(rows) == {r.Category : r \in Range(rows)}

\* what st.sidebar.date_input can return: a range inside [min, max], or the
\* one date of a range being picked
DateRanges(rows) ==
    LET lo == CHOOSE d \in Days(rows) : \A e \in Days(rows) : d <= e
        hi == CHOOSE d \in Days(rows) : \A e \in Days(rows) : e <= d
    IN  {<<a, b>> : a \in lo..hi, b \in lo..hi} \cup {<<a>> : a \in lo..hi}

DateFilter(rows, date_range) ==
    IF Len(date_range) = 2
    THEN SelectSeq(rows, LAMBDA r : DateOf(r.Date) >= date_range[1]
                                    /\ DateOf(r.Date) <= date_range[2])
    ELSE rows

IsIn(rows, selected) == SelectSeq(rows, LAMBDA r : r.Category \in selected)

\* st.sidebar.success, then the empty check
NoData ==
    /\ pc = "loaded"
    /\ data.rows = <<>>
    /\ EndRun({"connected", "No data available"})
    /\ UNCHANGED <<remote, clock, client_cache, clientsCreated, data_cache,
                   unit>>

HaveData ==
    /\ pc = "loaded"
    /\ data.rows # <<>>
    /\ ui' = {"connected"}
    /\ pc' = "filters"
    /\ UNCHANGED <<remote, clock, client_cache, clientsCreated, data_cache, err,
                   query, results, queries, idx, properties, processed_data, data,
                   filtered_data, unit>>

\* the sidebar widgets and the two filters
Filters ==
    /\ pc = "filters"
    /\ \E date_range \in DateRanges(data.rows),
          selected_categories \in SUBSET Categories(data.rows) :
          filtered_data' = IsIn(DateFilter(data.rows, date_range), selected_categories)
    /\ ui' = ui \cup {"filters"}
    /\ pc' = "metrics"
    /\ UNCHANGED <<remote, clock, client_cache, clientsCreated, data_cache, err,
                   query, results, queries, idx, properties, processed_data, data, unit>>

\* the four top metrics: Amount.sum() / 0 days is nan, Amount.idxmax() of an
\* empty column raises ValueError, which nothing handles
TopMetrics ==
    /\ pc = "metrics"
    /\ IF filtered_data = <<>>
       THEN EndRun(ui \cup {"exception"})
       ELSE /\ ui' = ui \cup {"metrics"}
            /\ pc' = "charts"
            /\ UNCHANGED <<err, query, results, queries, idx, properties, processed_data,
                           data, filtered_data>>
    /\ UNCHANGED <<remote, clock, client_cache, clientsCreated, data_cache,
                   unit>>

\* the two charts and the category-wise analysis
Charts ==
    /\ pc = "charts"
    /\ ui' = ui \cup {"charts"}
    /\ pc' = "trends"
    /\ UNCHANGED <<remote, clock, client_cache, clientsCreated, data_cache, err,
                   query, results, queries, idx, properties, processed_data, data,
                   filtered_data, unit>>

\* the monthly pivot has one column per category of filtered_data; a trend
\* category without a column raises KeyError, which nothing handles
Trends ==
    /\ pc = "trends"
    /\ \E selected_categories_trend \in SUBSET Categories(data.rows) :
          IF selected_categories_trend \subseteq Categories(filtered_data)
          THEN /\ ui' = ui \cup {"trends"}
               /\ pc' = "recent"
               /\ UNCHANGED <<err, query, results, queries, idx, properties,
                              processed_data, data, filtered_data>>
          ELSE EndRun(ui \cup {"exception"})
    /\ UNCHANGED <<remote, clock, client_cache, clientsCreated, data_cache,
                   unit>>

\* recent transactions and the download button; the run ends
Recent ==
    /\ pc = "recent"
    /\ EndRun(ui \cup {"recent", "download"})
    /\ UNCHANGED <<remote, clock, client_cache, clientsCreated, data_cache,
                   unit>>

Next ==
    \/ Tick \/ Rerun \/ CacheHit \/ CacheMiss
    \/ ClientCached \/ CreateClient \/ CreateClientFail
    \/ QueryFirst \/ QueryNext \/ QueryFail \/ StartLoop
    \/ NormalizeRow \/ FinishLoad \/ LoadExcept \/ ScriptExcept
    \/ NoData \/ HaveData \/ Filters \/ TopMetrics \/ Charts \/ Trends \/ Recent

Spec == Init /\ [][Next]_vars

InitRow ==
    /\ source = <<>>
    /\ page_size = 1
    /\ first_empty = FALSE
    /\ clock = 0
    /\ client_cache = FALSE
    /\ clientsCreated = 0
    /\ data_cache = NoCache
    /\ pc = "off"
    /\ RunLocals
    /\ ui = {}
    /\ unit \in {[UnitOff EXCEPT !.pc = "start", !.page = p] : p \in RawPages}

NextRow == RowProperties \/ RowCategory \/ RowDate \/ RowBuild

SpecRow == InitRow /\ [][NextRow]_vars

(***************************************************************************)
(* Properties                                                              *)
(***************************************************************************)
\* the row raises somewhere in the try block of the row loop
RowRaises(p) == ~p.hasProps \/ ExtractRow(p).exc
\* the row is extracted, with no date
Dateless(p) == p.hasProps /\ ~ExtractRow(p).exc /\ ExtractRow(p).val.Date.isNone
Survives(p) == ~RowRaises(p) /\ ~Dateless(p)

RaisingIn(seq) == {i \in 1..Len(seq) : RowRaises(seq[i])}
DatelessIn(seq) == {i \in 1..Len(seq) : Dateless(seq[i])}
Occurrences(seq, x) == Cardinality({i \in 1..Len(seq) : seq[i] = x})

\* load_data_from_notion has just returned from its body (not from the cache)
Returned == pc = "loaded" /\ queries # <<>>
Raising == pc \in {"except", "raised"}
Rendering == pc \in {"filters", "metrics", "charts", "trends", "recent"}

\* the pages the remote source splits its rows into
NPages ==
    (IF first_empty THEN 1 ELSE 0)
    + (IF Len(source) = 0 THEN 1 ELSE (Len(source) + page_size - 1) \div page_size)

\* C1: a batch in which exactly one row raises during extraction (at any
\* position, a row without "properties" included) does not make
\* load_data_from_notion raise; the table holds every other row unchanged
\* and has one row fewer than the raw input.
C1_OneFailingRowIsSkipped ==
    /\ (Raising /\ Cardinality(RaisingIn(source)) = 1) => err \in {"client", "query"}
    /\ (Returned /\ Cardinality(RaisingIn(results)) = 1 /\ DatelessIn(results) = {}) =>
          /\ Len(data.rows) = Len(results) - 1
          /\ \A i \in 1..Len(results) :
                Survives(results[i]) =>
                   Occurrences(data.rows, ExtractRow(results[i]).val)
                      = Cardinality({j \in 1..Len(results) :
                                        /\ Survives(results[j])
                                        /\ ExtractRow(results[j]).val
                                              = ExtractRow(results[i]).val})

C4_DatedAndSorted ==
    /\ \A i \in 1..Len(data.rows) : ~data.rows[i].Date.isNone
    /\ Ascending(data.rows)
    /\ \A i \in 1..Len(data_cache.table.rows) : ~data_cache.table.rows[i].Date.isNone
    /\ Ascending(data_cache.table.rows)

C4_Witness ==
    /\ Returned
    /\ DatelessIn(results) # {}
    /\ \E i, j \in 1..Len(results) :
          /\ i < j
          /\ Survives(results[i]) /\ Survives(results[j])
          /\ ExtractRow(results[i]).val.Date.wall > ExtractRow(results[j]).val.Date.wall
          /\ data.rows = <<ExtractRow(results[j]).val, ExtractRow(results[i]).val>>

\* C7: when no row survives (no rows, every row failed, or every row lacked a
\* date) load_data_from_notion returns, without raising, an empty table with
\* the five columns, and the dashboard shows "No data available" and stops
\* before any filter, metric or chart step.
C7_EmptyResultIsNotAnError ==
    (\A i \in 1..Len(source) : ~Survives(source[i])) =>
       /\ Raising => err \in {"client", "query"}
       /\ pc = "loaded" => data = [columns |-> Cols, rows |-> <<>>]
       /\ ~Rendering
       /\ "connected" \in ui => ui = {"connected", "No data available"}

\* C8: a failed client creation or page query never becomes a table: the
\* function raises, the page shows the error and nothing else, no filter,
\* metric or chart step runs, and no query is issued twice in the run.
C8_FetchFailureIsFatal ==
    /\ err \in {"client", "query"} =>
          /\ Raising
          /\ data = NoTable
          /\ ui = {}
    /\ err = "query" => queries[Len(queries)].next = 0
    /\ "error" \in ui => (ui = {"error"} /\ pc = "idle")
    /\ \A i, j \in 1..Len(queries) : i < j => queries[i].cursor # queries[j].cursor

C8_Witness ==
    /\ pc = "raised"
    /\ err = "query"
    /\ Len(queries) >= 2
    /\ results # <<>>

\* C9: while a fetched table is younger than 300 seconds no run enters the
\* function body (no query is issued); a run is served from the cache only
\* inside that window, so the first run after it refetches; the client is
\* constructed at most once and every query is made with the cached client.
C9_Caching ==
    /\ pc \in {"get_client", "query_first", "paginate", "normalize", "except", "raised"} =>
          ~(data_cache.has /\ clock - data_cache.stamp < 300)
    /\ (pc = "loaded" /\ queries = <<>>) =>
          /\ data_cache.has
          /\ clock - data_cache.stamp < 300
          /\ data = data_cache.table
    /\ clientsCreated <= 1
    /\ pc \in {"query_first", "paginate"} => (client_cache /\ clientsCreated = 1)

C9_Witness ==
    /\ pc = "loaded"
    /\ queries = <<>>
    /\ data_cache.stamp = 300
    /\ clock = 450
    /\ clientsCreated = 1

\* C10: with a non-empty table, every filter selection lets the run reach
\* the end of rendering without an unhandled error.
C10_RenderingCompletes == "exception" \notin ui

(***************************************************************************)
(* Properties of the extraction of one row (SpecRow)                       *)
(***************************************************************************)
RowDone == unit.pc = "done"
RowOver == unit.pc \in {"done", "failed", "raised"}

FirstNonEmpty(c) ==
    LET order == <<c.select, c.multi_select, c.rich_text>>
        hits == {i \in 1..3 : order[i] \notin {"ABSENT", "EMPTY"}}
    IN  IF hits = {} THEN "" ELSE order[CHOOSE i \in hits : \A j \in hits : i <= j]

FirstPresent(c) ==
    LET order == <<c.select, c.multi_select, c.rich_text>>
        hits == {i \in 1..3 : order[i] # "ABSENT"}
        first == order[CHOOSE i \in hits : \A j \in hits : i <= j]
    IN  IF hits = {} THEN "" ELSE IF first = "EMPTY" THEN "" ELSE first

\* C2 as stated: the Category is the first non-empty value in the order
\* select, multi_select, rich_text, so an empty higher-priority
\* representation does not hide a lower one.
C2_FirstNonEmptyWins == RowDone => unit.row.Category = FirstNonEmpty(unit.page.Category)

\* C2 amended: for every row that is extracted, the Category is the value of
\* the first representation whose key is present, in the order select,
\* multi_select, rich_text, and "" when that representation is empty or no
\* key is present; select wins over rich_text when both are present.
C2_FirstPresentWins ==
    RowDone =>
       /\ unit.row.Category = FirstPresent(unit.page.Category)
       /\ unit.page.Category = NoCategory => unit.row.Category = ""
       /\ unit.page.Category.select \notin {"ABSENT", "EMPTY"} =>
             unit.row.Category = unit.page.Category.select

C2_Witness ==
    /\ RowDone
    /\ unit.page.Category.select = "EMPTY"
    /\ unit.page.Category.rich_text = "Food"
    /\ unit.row.Category = ""

\* C5: a row with a parseable date is never lost to a missing or malformed
\* field: Name and Comment default to "", an Amount that is missing, null or
\* not a number becomes 0, the other fields are unaffected.
C5_FieldDefaults ==
    (/\ RowOver
     /\ unit.page.hasProps
     /\ unit.page.Date.kind \in {"full", "fallback"}
     /\ "BAD" \notin {unit.page.Category.select, unit.page.Category.multi_select,
                       unit.page.Category.rich_text}) =>
       /\ RowDone
       /\ unit.row.Name = Text(unit.page.Name)
       /\ unit.row.Comment = Text(unit.page.Comment)
       /\ unit.row.Amount = IF unit.page.Amount.kind = "num" THEN unit.page.Amount.num ELSE 0
       /\ ~unit.row.Date.isNone

\* the instant a fully parseable date string denotes, in minutes UTC
Instant(d) == d.day * DayMinutes + d.min - (IF d.aware THEN d.off ELSE 0)

====
